---- MODULE Spec2Model ----
(***************************************************************************)
(* Model of src/index.ts: an MCP server ("sendRequest") that registers one *)
(* resource (status), two tools (echo_message, send-get-request) and one   *)
(* prompt (generate_slogan), then connects to the stdio transport.         *)
(*                                                                         *)
(* JavaScript strings that the code builds or transforms are sequences of  *)
(* UTF-16 code units; strings the code only passes along (URIs, MIME       *)
(* types, field tags) are TLA+ strings.                                    *)
(***************************************************************************)
EXTENDS Integers, Sequences, FiniteSets

VARIABLES
    connect,     \* server.connect(transport): "pending", "resolved", "rejected"
    exitCode,    \* NoExit while the process runs, else the process exit code
    invoked,     \* per capability, the number of invocations dispatched
    pending,     \* the suspended send-get-request invocations: id -> args
    requests,    \* the outbound HTTP requests issued so far, in order
    sent         \* the reply last written to the transport

vars == <<connect, exitCode, invoked, pending, requests, sent>>

---------------------------------------------------------------------------
(* Bounds of the model.                                                    *)

\* Invocations dispatched in one run of the process.
MaxCalls == 3

---------------------------------------------------------------------------
(* JavaScript values.  One record shape for every value: t is the type     *)
(* tag, n the number (or 0/1 for a boolean), s the string's code units,    *)
(* keys and items an object's property names and values (items alone for   *)
(* an array).                                                              *)

JUndef == [t |-> "undefined", n |-> 0, s |-> <<>>, keys |-> <<>>, items |-> <<>>]
JNull == [t |-> "null", n |-> 0, s |-> <<>>, keys |-> <<>>, items |-> <<>>]
JBool(b) == [t |-> "boolean", n |-> IF b THEN 1 ELSE 0, s |-> <<>>, keys |-> <<>>, items |-> <<>>]
JNum(k) == [t |-> "number", n |-> k, s |-> <<>>, keys |-> <<>>, items |-> <<>>]
JStr(str) == [t |-> "string", n |-> 0, s |-> str, keys |-> <<>>, items |-> <<>>]
JArr(xs) == [t |-> "array", n |-> 0, s |-> <<>>, keys |-> <<>>, items |-> xs]
JObj(ks, xs) == [t |-> "object", n |-> 0, s |-> <<>>, keys |-> ks, items |-> xs]

\* The decimal digits of a natural number, as Number.prototype.toString
\* writes them.
RECURSIVE Digits(_)
Digits(k) ==
    IF k < 10 THEN <<48 + k>> ELSE Digits(k \div 10) \o <<48 + (k % 10)>>

\* Number to string (integers): a minus sign, then the digits.
NumberToString(k) == IF k < 0 THEN <<45>> \o Digits(-k) ELSE Digits(k)

\* "0123456789abcdef"
HexDigits == <<48, 49, 50, 51, 52, 53, 54, 55, 56, 57, 97, 98, 99, 100, 101, 102>>

\* JSON.stringify's QuoteJSONString, one code unit: the two-character
\* escapes, \u00XX for the other control characters, the unit itself
\* otherwise.
QuoteUnit(c) ==
    CASE c = 34 -> <<92, 34>>
      [] c = 92 -> <<92, 92>>
      [] c = 8 -> <<92, 98>>
      [] c = 9 -> <<92, 116>>
      [] c = 10 -> <<92, 110>>
      [] c = 12 -> <<92, 102>>
      [] c = 13 -> <<92, 114>>
      [] c < 32 /\ c \notin {8, 9, 10, 12, 13} ->
            <<92, 117, 48, 48, HexDigits[(c \div 16) + 1], HexDigits[(c % 16) + 1]>>
      [] OTHER -> <<c>>

RECURSIVE QuoteBody(_)
QuoteBody(str) ==
    IF str = <<>> THEN <<>> ELSE QuoteUnit(Head(str)) \o QuoteBody(Tail(str))

QuoteJSONString(str) == <<34>> \o QuoteBody(str) \o <<34>>

\* JSON.stringify(v) without indentation: the JavaScript value it returns,
\* a string, or undefined for undefined.  An undefined array element is
\* written null and an undefined property is left out.
RECURSIVE SerializeJSON(_), SerializeElements(_), SerializeMembers(_, _, _)
SerializeJSON(v) ==
    CASE v.t = "null" -> <<110, 117, 108, 108>>
      [] v.t = "boolean" ->
            IF v.n = 1 THEN <<116, 114, 117, 101>> ELSE <<102, 97, 108, 115, 101>>
      [] v.t = "number" -> NumberToString(v.n)
      [] v.t = "string" -> QuoteJSONString(v.s)
      [] v.t = "array" -> <<91>> \o SerializeElements(v.items) \o <<93>>
      [] v.t = "object" -> <<123>> \o SerializeMembers(v.keys, v.items, TRUE) \o <<125>>
SerializeElements(xs) ==
    IF xs = <<>> THEN <<>>
    ELSE (IF Head(xs).t = "undefined" THEN <<110, 117, 108, 108>>
          ELSE SerializeJSON(Head(xs)))
         \o (IF Len(xs) > 1 THEN <<44>> ELSE <<>>)
         \o SerializeElements(Tail(xs))
SerializeMembers(ks, xs, first) ==
    IF ks = <<>> THEN <<>>
    ELSE IF Head(xs).t = "undefined" THEN SerializeMembers(Tail(ks), Tail(xs), first)
    ELSE (IF first THEN <<>> ELSE <<44>>)
         \o QuoteJSONString(Head(ks)) \o <<58>> \o SerializeJSON(Head(xs))
         \o SerializeMembers(Tail(ks), Tail(xs), FALSE)

JSONstringify(v) == IF v.t = "undefined" THEN JUndef ELSE JStr(SerializeJSON(v))

\* ToString of a primitive, as a template literal's ${...} applies it.
JSToString(v) ==
    CASE v.t = "string" -> v.s
      [] v.t = "undefined" -> <<117, 110, 100, 101, 102, 105, 110, 101, 100>>
      [] v.t = "null" -> <<110, 117, 108, 108>>
      [] v.t = "boolean" ->
            IF v.n = 1 THEN <<116, 114, 117, 101>> ELSE <<102, 97, 108, 115, 101>>
      [] v.t = "number" -> NumberToString(v.n)

\* The property read v[key], for a value that is neither null nor
\* undefined: an object's own property when it has one, else undefined (a
\* string, number, boolean or array has no property named "data").
RECURSIVE Lookup(_, _, _)
Lookup(ks, xs, key) ==
    IF ks = <<>> THEN JUndef
    ELSE IF ks[Len(ks)] = key THEN xs[Len(xs)]
    ELSE Lookup(SubSeq(ks, 1, Len(ks) - 1), SubSeq(xs, 1, Len(xs) - 1), key)

GetProp(v, key) == IF v.t = "object" THEN Lookup(v.keys, v.items, key) ELSE JUndef

\* Error objects: name and message.  ${error} is Error.prototype.toString:
\* the name, and ": " and the message when there is one.
NoError == [name |-> <<>>, message |-> <<>>, code |-> ""]
ErrorToString(e) ==
    IF e.message = <<>> THEN e.name ELSE e.name \o <<58, 32>> \o e.message

---------------------------------------------------------------------------
(* The capability handlers.  A handler's run ends in a completion: it      *)
(* returns a value or throws an error.                                     *)

NoReply == [none |-> TRUE]
Return(v) == [type |-> "return", value |-> v, error |-> NoError]
Throw(e) == [type |-> "throw", value |-> NoReply, error |-> e]

\* The fixed URI the status resource is registered under.
StatusUri == "resource://status/server"

\* "服务器运行正常，无已知错误。自上次启动以来已处理 100 次请求。"
StatusText ==
    <<26381, 21153, 22120, 36816, 34892, 27491, 24120, 65292, 26080, 24050,
      30693, 38169, 35823, 12290, 33258, 19978, 27425, 21551, 21160, 20197,
      26469, 24050, 22788, 29702, 32, 49, 48, 48, 32, 27425, 35831, 27714,
      12290>>

\* A status text that reports the invocations dispatched so far.
StatusHandlerLive(uri) ==
    Return([contents |-> <<[uri |-> uri,
                            text |-> SubSeq(StatusText, 1, 25)
                                     \o NumberToString(invoked["status"] + invoked["echo_message"]
                                                        + invoked["send-get-request"]
                                                        + invoked["generate_slogan"])
                                     \o SubSeq(StatusText, 29, Len(StatusText)),
                            mimeType |-> "text/plain"]>>])

\* The status resource's read callback.
StatusHandler(uri) ==
    Return([contents |-> <<[uri |-> uri, text |-> StatusText,
                            mimeType |-> "text/plain"]>>])

\* "你说了："
EchoPrefix == <<20320, 35828, 20102, 65306>>

\* An echo that escapes the message as JSON.stringify would.
EchoHandlerEscaped(args) ==
    Return([content |-> <<[type |-> "text",
                           text |-> EchoPrefix \o QuoteBody(args.message)]>>])

\* The echo_message tool's callback.
EchoHandler(args) ==
    Return([content |-> <<[type |-> "text", text |-> EchoPrefix \o args.message]>>])

\* "请为“" and "”主题生成一句有创意且吸引人的口号。要求口号简短有力，易于传播。"
SloganHead == <<35831, 20026, 8220>>
SloganTail ==
    <<8221, 20027, 39064, 29983, 25104, 19968, 21477, 26377, 21019, 24847,
      19988, 21560, 24341, 20154, 30340, 21475, 21495, 12290, 35201, 27714,
      21475, 21495, 31616, 30701, 26377, 21147, 65292, 26131, 20110, 20256,
      25773, 12290>>

\* A slogan prompt that leaves the theme out.
SloganHandlerNoTheme(args) ==
    Return([messages |-> <<[role |-> "user",
                            content |-> [type |-> "text",
                                         text |-> SloganHead \o SloganTail]]>>])

\* The generate_slogan prompt's callback.
SloganHandler(args) ==
    Return([messages |-> <<[role |-> "user",
                            content |-> [type |-> "text",
                                         text |-> SloganHead \o args.theme \o SloganTail]]>>])

\* "请求成功: " and "请求错误 ("
SuccessPrefix == <<35831, 27714, 25104, 21151, 58, 32>>
ErrorPrefix == <<35831, 27714, 38169, 35823, 32, 40>>

\* The timeout, in milliseconds, send-get-request gives axios.
RequestTimeoutMs == 10000

\* A configuration that sets no timeout.
SendGetConfigNoTimeout(args) ==
    [params |-> args.params,
     headers |-> IF args.headers.t = "undefined" THEN JObj(<<>>, <<>>) ELSE args.headers,
     timeout |-> 0]

\* The request configuration send-get-request hands to axios.get: the
\* params, the headers (an empty object when none were given) and the
\* timeout.
SendGetConfig(args) ==
    [params |-> args.params,
     headers |-> IF args.headers.t = "undefined" THEN JObj(<<>>, <<>>) ELSE args.headers,
     timeout |-> RequestTimeoutMs]

\* The outbound request axios.get(uri, config) issues.
AxiosGet(uri, config) ==
    [method |-> "GET", url |-> uri, params |-> config.params,
     headers |-> config.headers, timeout |-> config.timeout]

\* How the promise of axios.get settles.
NoResponse == [status |-> 0, data |-> JUndef]
NoOutcome == [kind |-> "none", response |-> NoResponse, error |-> NoError]
Fulfilled(r) == [kind |-> "fulfilled", response |-> r, error |-> NoError]
Rejected(e) == [kind |-> "rejected", response |-> NoResponse, error |-> e]

\* "AxiosError" and "TypeError"
AxiosErrorName == <<65, 120, 105, 111, 115, 69, 114, 114, 111, 114>>
TypeErrorName == <<84, 121, 112, 101, 69, 114, 114, 111, 114>>

\* axios settles a response by its status (validateStatus: 2xx fulfils):
\* any other status rejects with "Request failed with status code <status>".
AxiosSettle(status, data) ==
    IF status >= 200 /\ status < 300
    THEN Fulfilled([status |-> status, data |-> data])
    ELSE Rejected([name |-> AxiosErrorName,
                   message |-> <<82, 101, 113, 117, 101, 115, 116, 32, 102, 97,
                                 105, 108, 101, 100, 32, 119, 105, 116, 104, 32,
                                 115, 116, 97, 116, 117, 115, 32, 99, 111, 100,
                                 101, 32>> \o NumberToString(status),
                   code |-> IF status >= 400 /\ status < 500
                            THEN "ERR_BAD_REQUEST" ELSE "ERR_BAD_RESPONSE"])

\* The rejection when the request's timeout elapses:
\* "timeout of <timeout>ms exceeded".
AxiosTimeoutError(timeout) ==
    Rejected([name |-> AxiosErrorName,
              message |-> <<116, 105, 109, 101, 111, 117, 116, 32, 111, 102, 32>>
                          \o NumberToString(timeout)
                          \o <<109, 115, 32, 101, 120, 99, 101, 101, 100, 101, 100>>,
              code |-> "ECONNABORTED"])

\* The rejection when the host cannot be resolved:
\* "getaddrinfo ENOTFOUND example.invalid".
AxiosNetworkError ==
    Rejected([name |-> AxiosErrorName,
              message |-> <<103, 101, 116, 97, 100, 100, 114, 105, 110, 102, 111,
                            32, 69, 78, 79, 84, 70, 79, 85, 78, 68, 32, 101, 120,
                            97, 109, 112, 108, 101, 46, 105, 110, 118, 97, 108,
                            105, 100>>,
              code |-> "ENOTFOUND"])

\* Reading a property of null or undefined throws
\* "Cannot read properties of null (reading 'data')" (or "of undefined").
ReadOfNullish(v) ==
    [name |-> TypeErrorName,
     message |-> <<67, 97, 110, 110, 111, 116, 32, 114, 101, 97, 100, 32, 112,
                   114, 111, 112, 101, 114, 116, 105, 101, 115, 32, 111, 102, 32>>
                 \o JSToString(v)
                 \o <<32, 40, 114, 101, 97, 100, 105, 110, 103, 32, 39, 100, 97,
                      116, 97, 39, 41>>,
     code |-> ""]

\* "data"
DataKey == <<100, 97, 116, 97>>

\* A try block that serializes the whole response body.
SendGetTryWholeBody(outcome) ==
    IF outcome.kind = "rejected" THEN Throw(outcome.error)
    ELSE IF outcome.response.data.t \in {"null", "undefined"}
    THEN Throw(ReadOfNullish(outcome.response.data))
    ELSE Return([content |-> <<[type |-> "text",
                                text |-> SuccessPrefix
                                         \o JSToString(JSONstringify(
                                               outcome.response.data))]>>])

\* The try block of send-get-request once the awaited promise has settled:
\* a rejection is thrown at the await; otherwise the reply is built from
\* response.data.data, and the read of .data throws when response.data is
\* null or undefined.
SendGetTry(outcome) ==
    IF outcome.kind = "rejected" THEN Throw(outcome.error)
    ELSE IF outcome.response.data.t \in {"null", "undefined"}
    THEN Throw(ReadOfNullish(outcome.response.data))
    ELSE Return([content |-> <<[type |-> "text",
                                text |-> SuccessPrefix
                                         \o JSToString(JSONstringify(
                                               GetProp(outcome.response.data, DataKey)))]>>])

\* A catch block that throws the error on.
SendGetCatchRethrow(error) == Throw(error)

\* The catch block of send-get-request.
SendGetCatch(error) ==
    Return([content |-> <<[type |-> "text",
                           text |-> ErrorPrefix \o ErrorToString(error) \o <<41>>]>>])

\* send-get-request from the await on: try, then catch what it throws.
SendGetResume(outcome) ==
    LET c == SendGetTry(outcome)
    IN  IF c.type = "throw" THEN SendGetCatch(c.error) ELSE c

\* A response kept in a variable that every invocation shares: the await
\* gives the response the last reply was built from.
AwaitResultShared(i, outcome) ==
    IF sent.cap = "send-get-request" THEN sent.outcome ELSE outcome

\* What `await axios.get(...)` gives invocation i when its own promise
\* settles with outcome: that outcome (response is a local of the call).
AwaitResult(i, outcome) == outcome

\* A rejection handler that logs and leaves with exit code 0.
MainCatchExitZero(error) == [exitCode |-> 0]

\* The rejection handler of main(): log, then process.exit(1).
MainCatch(error) == [exitCode |-> 1]

---------------------------------------------------------------------------
(* The inputs the model draws from.                                        *)

\* message arguments of echo_message: "hello", "" and "a\"b" followed by a
\* line feed.
EchoMessages == {<<104, 101, 108, 108, 111>>, <<>>, <<97, 34, 98, 10>>}

\* theme arguments of generate_slogan: "环保" and "创新".
SloganThemes == {<<29615, 20445>>, <<21019, 26032>>}

\* Arguments of send-get-request: {uri, params: {}} with no headers, and
\* {uri, params: {id: 1}, headers: {"X-Token": "t"}}.
GetArgs ==
    <<[uri |-> "http://example.invalid/", params |-> JObj(<<>>, <<>>),
       headers |-> JUndef],
      [uri |-> "http://example.invalid/", params |-> JObj(<<<<105, 100>>>>, <<JNum(1)>>),
       headers |-> JObj(<<<<88, 45, 84, 111, 107, 101, 110>>>>, <<JStr(<<116>>)>>)]>>

\* Values X of a response body {"data": X}:
\* null, true, -7, "a\"b", [1,"x",null] and {"id":1,"tags":["a",true]}.
DataValues ==
    <<JNull,
      JBool(TRUE),
      JNum(-7),
      JStr(<<97, 34, 98>>),
      JArr(<<JNum(1), JStr(<<120>>), JNull>>),
      JObj(<<<<105, 100>>, <<116, 97, 103, 115>>>>,
           <<JNum(1), JArr(<<JStr(<<97>>), JBool(TRUE)>>)>>)>>

\* The body {"data": X}.
Wrapped(X) == JObj(<<DataKey>>, <<X>>)

\* The body {"code": 0, "data": [1,"x",null], "message": "ok"}.
Enveloped ==
    JObj(<<<<99, 111, 100, 101>>, DataKey, <<109, 101, 115, 115, 97, 103, 101>>>>,
         <<JNum(0), JArr(<<JNum(1), JStr(<<120>>), JNull>>), JStr(<<111, 107>>)>>)

\* Response bodies that carry no data field: {"message":"ok"}, the text
\* "OK", [1], 5, the empty body "" and the JSON body null.
BareBodies ==
    <<JObj(<<<<109, 101, 115, 115, 97, 103, 101>>>>, <<JStr(<<111, 107>>)>>),
      JStr(<<79, 75>>),
      JArr(<<JNum(1)>>),
      JNum(5),
      JStr(<<>>),
      JNull>>

\* What an endpoint may answer: every body above with status 200, the
\* enveloped body with status 201, and the statuses 404 and 500.
EndpointReplies ==
    [k \in 1..Len(DataValues) |-> [status |-> 200, data |-> Wrapped(DataValues[k])]]
    \o [k \in 1..Len(BareBodies) |-> [status |-> 200, data |-> BareBodies[k]]]
    \o <<[status |-> 201, data |-> Enveloped],
         [status |-> 404, data |-> BareBodies[1]],
         [status |-> 500, data |-> BareBodies[2]]>>

---------------------------------------------------------------------------
(* The process.                                                            *)

NoExit == -1
Capabilities == {"status", "echo_message", "send-get-request", "generate_slogan"}

\* A reply on the transport: the invocation it answers, what the invocation
\* was given (its arguments and, for send-get-request, how its own request
\* ended) and the handler's completion.
Reply(id, cap, args, outcome, completion) ==
    [call |-> id, cap |-> cap, args |-> args, outcome |-> outcome,
     completion |-> completion]
NoMessage == Reply(0, "none", NoReply, NoOutcome, Return(NoReply))

Init ==
    /\ connect = "pending"
    /\ exitCode = NoExit
    /\ invoked = [c \in Capabilities |-> 0]
    /\ pending = <<>>
    /\ requests = <<>>
    /\ sent = NoMessage

Dispatched == invoked["status"] + invoked["echo_message"]
              + invoked["send-get-request"] + invoked["generate_slogan"]

\* main(): server.connect(transport) resolves and the server serves.
ConnectOk ==
    /\ connect = "pending"
    /\ connect' = "resolved"
    /\ UNCHANGED <<exitCode, invoked, pending, requests, sent>>

\* main(): server.connect(transport) rejects and main's catch runs.
ConnectFail ==
    /\ connect = "pending"
    /\ connect' = "rejected"
    /\ exitCode' = MainCatch([name |-> <<69, 114, 114, 111, 114>>, message |-> <<>>,
                              code |-> ""]).exitCode
    /\ UNCHANGED <<invoked, pending, requests, sent>>

\* The client closes the transport with no work pending: the event loop
\* drains and the process ends normally.
Shutdown ==
    /\ connect = "resolved"
    /\ exitCode = NoExit
    /\ DOMAIN pending = {}
    /\ exitCode' = 0
    /\ UNCHANGED <<connect, invoked, pending, requests, sent>>

CanDispatch == connect = "resolved" /\ exitCode = NoExit /\ Dispatched < MaxCalls

\* An invocation of a handler that runs to completion without suspending:
\* it is counted and its reply written.
Run(cap, args, completion) ==
    /\ invoked' = [invoked EXCEPT ![cap] = @ + 1]
    /\ sent' = Reply(Dispatched + 1, cap, args, NoOutcome, completion)
    /\ UNCHANGED <<connect, exitCode, pending, requests>>

\* A read of resource://status/server.
ReadStatus ==
    /\ CanDispatch
    /\ Run("status", [uri |-> StatusUri], StatusHandler(StatusUri))

\* A call of the echo_message tool.
CallEcho(message) ==
    /\ CanDispatch
    /\ Run("echo_message", [message |-> message], EchoHandler([message |-> message]))

\* A get of the generate_slogan prompt.
GetSlogan(theme) ==
    /\ CanDispatch
    /\ Run("generate_slogan", [theme |-> theme], SloganHandler([theme |-> theme]))

\* A call of the send-get-request tool, up to its await: the request goes
\* out and the invocation suspends.
CallSendGet(args) ==
    /\ CanDispatch
    /\ invoked' = [invoked EXCEPT !["send-get-request"] = @ + 1]
    /\ pending' = [i \in DOMAIN pending \cup {Dispatched + 1} |->
                      IF i \in DOMAIN pending THEN pending[i] ELSE args]
    /\ requests' = Append(requests,
                          [call |-> Dispatched + 1,
                           request |-> AxiosGet(args.uri, SendGetConfig(args))])
    /\ UNCHANGED <<connect, exitCode, sent>>

\* The request invocation i is waiting on.
RequestOf(i) ==
    requests[CHOOSE k \in 1..Len(requests) : requests[k].call = i].request

\* A handler that asks again after a failed request.
IssuedOnRetry(i, outcome) ==
    IF outcome.kind = "rejected" THEN <<[call |-> i, request |-> RequestOf(i)]>> ELSE <<>>

\* The requests invocation i issues between its await and its return:
\* none, neither the try block nor the catch block calls axios again.
IssuedOnResume(i, outcome) == <<>>

\* Invocation i's promise settles with outcome; the handler runs on from
\* its await to its return and the reply is written.
Settle(i, outcome) ==
    /\ pending' = [j \in DOMAIN pending \ {i} |-> pending[j]]
    /\ sent' = Reply(i, "send-get-request", pending[i], outcome,
                     SendGetResume(AwaitResult(i, outcome)))
    /\ requests' = requests \o IssuedOnResume(i, outcome)
    /\ UNCHANGED <<connect, exitCode, invoked>>

\* The endpoint answers invocation i's request.
EndpointResponds(i, reply) ==
    /\ i \in DOMAIN pending
    /\ Settle(i, AxiosSettle(reply.status, reply.data))

\* Invocation i's request fails on the network.
NetworkFails(i) ==
    /\ i \in DOMAIN pending
    /\ Settle(i, AxiosNetworkError)

\* No answer within the request's timeout (a timeout of 0 means none).
TimeoutFires(i) ==
    /\ i \in DOMAIN pending
    /\ RequestOf(i).timeout > 0
    /\ Settle(i, AxiosTimeoutError(RequestOf(i).timeout))

Next ==
    \/ ConnectOk
    \/ ConnectFail
    \/ Shutdown
    \/ ReadStatus
    \/ \E m \in EchoMessages : CallEcho(m)
    \/ \E t \in SloganThemes : GetSlogan(t)
    \/ \E a \in 1..Len(GetArgs) : CallSendGet(GetArgs[a])
    \/ \E i \in 1..MaxCalls, k \in 1..Len(EndpointReplies) :
          EndpointResponds(i, EndpointReplies[k])
    \/ \E i \in 1..MaxCalls : NetworkFails(i)
    \/ \E i \in 1..MaxCalls : TimeoutFires(i)

Spec == Init /\ [][Next]_vars

\* The timer of a pending request runs: its timeout is not put off forever.
FairSpec == Spec /\ \A i \in 1..MaxCalls : WF_vars(TimeoutFires(i))

---------------------------------------------------------------------------
(* Properties.                                                             *)

\* The reply a tool call returns with one text item.
TextReply(text) == Return([content |-> <<[type |-> "text", text |-> text]>>])

IsGetReply == sent.cap = "send-get-request"
StartsWith(str, prefix) ==
    Len(str) >= Len(prefix) /\ SubSeq(str, 1, Len(prefix)) = prefix

\* "请求错误 (AxiosError: timeout of 10000ms exceeded)"
TimeoutReplyText ==
    <<35831, 27714, 38169, 35823, 32, 40, 65, 120, 105, 111, 115, 69, 114,
    114, 111, 114, 58, 32, 116, 105, 109, 101, 111, 117, 116, 32, 111,
    102, 32, 49, 48, 48, 48, 48, 109, 115, 32, 101, 120, 99, 101, 101,
    100, 101, 100, 41>>
\* "请求错误 (AxiosError: Request failed with status code 404)"
NotFoundReplyText ==
    <<35831, 27714, 38169, 35823, 32, 40, 65, 120, 105, 111, 115, 69, 114,
    114, 111, 114, 58, 32, 82, 101, 113, 117, 101, 115, 116, 32, 102, 97,
    105, 108, 101, 100, 32, 119, 105, 116, 104, 32, 115, 116, 97, 116,
    117, 115, 32, 99, 111, 100, 101, 32, 52, 48, 52, 41>>
\* "请求错误 (AxiosError: getaddrinfo ENOTFOUND example.invalid)"
NetworkReplyText ==
    <<35831, 27714, 38169, 35823, 32, 40, 65, 120, 105, 111, 115, 69, 114,
    114, 111, 114, 58, 32, 103, 101, 116, 97, 100, 100, 114, 105, 110,
    102, 111, 32, 69, 78, 79, 84, 70, 79, 85, 78, 68, 32, 101, 120, 97,
    109, 112, 108, 101, 46, 105, 110, 118, 97, 108, 105, 100, 41>>

\* The outbound GET failed: by the network, by its timeout or by a status
\* outside 2xx.
GetFailed ==
    /\ IsGetReply
    /\ sent.outcome.kind = "rejected"
    /\ sent.outcome.error.code \in
          {"ENOTFOUND", "ECONNABORTED", "ERR_BAD_REQUEST", "ERR_BAD_RESPONSE"}

\* C1: a send-get-request invocation whose outbound GET fails (network
\* failure, timeout, status outside 2xx) returns normally, with no error
\* flag, exactly one text item: "请求错误 (", the error as a string, ")".
C1_FailureIsErrorText ==
    GetFailed =>
        /\ sent.completion = TextReply(ErrorPrefix \o ErrorToString(sent.outcome.error)
                                       \o <<41>>)
        /\ sent.outcome.error.code = "ECONNABORTED"
              => sent.completion.value.content[1].text = TimeoutReplyText
        /\ sent.outcome.error.code = "ENOTFOUND"
              => sent.completion.value.content[1].text = NetworkReplyText
        /\ sent.outcome.error.code = "ERR_BAD_REQUEST"
              => sent.completion.value.content[1].text = NotFoundReplyText

\* A GET answered 404 has been replied to.
C1_Witness ==
    /\ GetFailed
    /\ sent.outcome.error.code = "ERR_BAD_REQUEST"
    /\ sent.completion.type = "return"

\* The response body is an object with a data property.
HasData(body) ==
    body.t = "object" /\ \E k \in 1..Len(body.keys) : body.keys[k] = DataKey

\* C2 (as claimed): a 2xx response whose body is not an object carrying a
\* data field is answered as an outbound call error: the text starts with
\* the error prefix and never with the success prefix.
C2_BareBodyIsError ==
    (/\ IsGetReply
     /\ sent.outcome.kind = "fulfilled"
     /\ ~HasData(sent.outcome.response.data))
    => /\ sent.completion.type = "return"
       /\ StartsWith(sent.completion.value.content[1].text, ErrorPrefix)
       /\ ~StartsWith(sent.completion.value.content[1].text, SuccessPrefix)

\* The serializations of DataValues, written out:
\* null, true, -7, "a\"b", [1,"x",null] and {"id":1,"tags":["a",true]}.
DataJSON ==
    <<<<110, 117, 108, 108>>,
      <<116, 114, 117, 101>>,
      <<45, 55>>,
      <<34, 97, 92, 34, 98, 34>>,
      <<91, 49, 44, 34, 120, 34, 44, 110, 117, 108, 108, 93>>,
      <<123, 34, 105, 100, 34, 58, 49, 44, 34, 116, 97, 103, 115, 34, 58,
      91, 34, 97, 34, 44, 116, 114, 117, 101, 93, 125>>>>

\* C3: a 2xx response with body {"data": X} is answered with exactly one
\* text item, "请求成功: " followed by the JSON serialization of X alone.
C3_DataIsSerialized ==
    \A k \in 1..Len(DataValues) :
        (/\ IsGetReply
         /\ sent.outcome.kind = "fulfilled"
         /\ sent.outcome.response.data = Wrapped(DataValues[k]))
        => sent.completion = TextReply(SuccessPrefix \o DataJSON[k])

\* The body {"data": {"id":1,"tags":["a",true]}} has been replied to.
C3_Witness ==
    /\ IsGetReply
    /\ sent.outcome.kind = "fulfilled"
    /\ sent.outcome.response.data = Wrapped(DataValues[6])
    /\ sent.completion.type = "return"

\* The requests issued for invocation i.
RequestsFor(i) == {k \in 1..Len(requests) : requests[k].call = i}

\* C4: every send-get-request invocation issues exactly one outbound GET,
\* while it is suspended and after it has returned, whatever its outcome;
\* the requests issued number the invocations of send-get-request.
C4_OneRequestPerInvocation ==
    /\ Len(requests) = invoked["send-get-request"]
    /\ \A k \in 1..Len(requests) : requests[k].request.method = "GET"
    /\ \A i \in DOMAIN pending : Cardinality(RequestsFor(i)) = 1
    /\ IsGetReply => Cardinality(RequestsFor(sent.call)) = 1

\* Two invocations were made; the second timed out and was replied to
\* while the first is still suspended.
C4_Witness ==
    /\ invoked["send-get-request"] = 2
    /\ IsGetReply
    /\ sent.outcome.error.code = "ECONNABORTED"
    /\ DOMAIN pending # {}

\* C5: every send-get-request invocation eventually returns a reply: it
\* does not stay suspended for ever, and it leaves its suspension only with
\* a returned reply; when its timeout fires the reply is the error text of
\* the timeout and nothing else; and no step taken while an invocation is
\* suspended ends the process.
C5_EveryCallReturns ==
    /\ \A i \in 1..MaxCalls : <>[](i \notin DOMAIN pending)
    /\ [][\A i \in DOMAIN pending :
             i \notin DOMAIN pending'
                => sent'.call = i /\ sent'.completion.type = "return"]_vars
    /\ [](IsGetReply /\ sent.outcome.error.code = "ECONNABORTED"
             => sent.completion = TextReply(TimeoutReplyText))
    /\ [][DOMAIN pending # {} => exitCode' = exitCode]_vars

\* The timeout of a request made with {id: 1} has fired and the reply is
\* out.
C5_Witness ==
    /\ IsGetReply
    /\ sent.outcome.error.code = "ECONNABORTED"
    /\ sent.args = GetArgs[2]
    /\ sent.completion = TextReply(TimeoutReplyText)

\* C6: the process exits with code 1 exactly when server.connect rejected,
\* and then no handler has run: no invocation leads to exit code 1.
C6_ExitOneOnlyOnStartupFailure ==
    /\ connect = "rejected" <=> exitCode = 1
    /\ exitCode = 1 => Dispatched = 0 /\ sent = NoMessage
    /\ Dispatched > 0 => exitCode \in {NoExit, 0}

\* server.connect has rejected and the process has exited.
C6_Witness == connect = "rejected" /\ exitCode # NoExit

\* "你说了：hello"
EchoHelloText == <<20320, 35828, 20102, 65306, 104, 101, 108, 108, 111>>

\* C7: echo_message returns exactly one text item, "你说了：" followed by the
\* message as given, so the same message gives the same reply; and the
\* call changes nothing but the count of invocations and the reply written.
C7_EchoIsVerbatim ==
    /\ [](sent.cap = "echo_message" =>
            /\ sent.completion = TextReply(EchoPrefix \o sent.args.message)
            /\ Len(sent.completion.value.content[1].text) = 4 + Len(sent.args.message)
            /\ sent.args.message = <<104, 101, 108, 108, 111>>
                  => sent.completion.value.content[1].text = EchoHelloText)
    /\ [][sent' # sent /\ sent'.cap = "echo_message"
            => UNCHANGED <<connect, exitCode, pending, requests>>]_vars

\* The message "a\"b" followed by a line feed has been echoed.
C7_Witness ==
    /\ sent.cap = "echo_message"
    /\ sent.args.message = <<97, 34, 98, 10>>
    /\ sent.completion.type = "return"

\* C8: a read of the status resource returns one content item with the
\* fixed text (its "100" included) and MIME type text/plain, however many
\* invocations came before it.
C8_StatusIsConstant ==
    sent.cap = "status" =>
        /\ sent.completion =
              Return([contents |-> <<[uri |-> StatusUri, text |-> StatusText,
                                      mimeType |-> "text/plain"]>>])
        /\ SubSeq(sent.completion.value.contents[1].text, 26, 28) = <<49, 48, 48>>

\* The status is read as the third invocation, after a send-get-request.
C8_Witness ==
    /\ sent.cap = "status"
    /\ sent.call = 3
    /\ invoked["send-get-request"] > 0

\* "请为“环保”主题生成一句有创意且吸引人的口号。要求口号简短有力，易于传播。"
SloganGreenText ==
    <<35831, 20026, 8220, 29615, 20445, 8221, 20027, 39064, 29983, 25104,
    19968, 21477, 26377, 21019, 24847, 19988, 21560, 24341, 20154, 30340,
    21475, 21495, 12290, 35201, 27714, 21475, 21495, 31616, 30701, 26377,
    21147, 65292, 26131, 20110, 20256, 25773, 12290>>

\* C9: generate_slogan returns exactly one message, of role user, whose
\* text is the template with the theme in it as given, so it depends on the
\* theme alone; and the handler issues no request.
C9_SloganIsTemplate ==
    /\ [](sent.cap = "generate_slogan" =>
            /\ sent.completion =
                  Return([messages |-> <<[role |-> "user",
                                          content |-> [type |-> "text",
                                                       text |-> SloganHead
                                                                \o sent.args.theme
                                                                \o SloganTail]]>>])
            /\ sent.args.theme = <<29615, 20445>>
                  => sent.completion.value.messages[1].content.text = SloganGreenText)
    /\ [][sent' # sent /\ sent'.cap = "generate_slogan"
            => UNCHANGED <<connect, exitCode, pending, requests>>]_vars

\* A slogan for "创新" has been asked for.
C9_Witness ==
    /\ sent.cap = "generate_slogan"
    /\ sent.args.theme = <<21019, 26032>>
    /\ sent.completion.type = "return"

\* The reply of an invocation that runs alone, from its own arguments and
\* the outcome of its own outbound call.
RunAlone(cap, args, outcome) ==
    CASE cap = "status" -> StatusHandler(args.uri)
      [] cap = "echo_message" -> EchoHandler(args)
      [] cap = "generate_slogan" -> SloganHandler(args)
      [] cap = "send-get-request" -> SendGetResume(outcome)

\* C10: whatever else is outstanding, and in whatever order invocations
\* complete, a reply is the reply the invocation gives when run alone: it
\* depends on its own arguments and its own outbound call only.  The
\* arguments of a suspended invocation are not touched by other steps.
C10_RepliesAreIndependent ==
    /\ [](sent # NoMessage => sent.completion = RunAlone(sent.cap, sent.args, sent.outcome))
    /\ [][\A i \in DOMAIN pending :
             /\ i \in DOMAIN pending' => pending'[i] = pending[i]
             /\ i \notin DOMAIN pending' => sent'.call = i /\ sent'.args = pending[i]]_vars

\* Three invocations were dispatched, two of them send-get-request and
\* suspended together; the later one has completed first, on a 2xx
\* response, while the earlier one is still suspended.
C10_Witness ==
    /\ IsGetReply
    /\ sent.outcome.kind = "fulfilled"
    /\ \E j \in DOMAIN pending : j < sent.call
    /\ invoked["send-get-request"] = 2
    /\ Dispatched = 3

====
